---- MODULE Spec2Model ----
(***************************************************************************)
(* Model of the `council review` batch: the concurrency-bounded dispatcher *)
(* (commands/review.py: _review, _review_single_file), the retry/backoff   *)
(* controller (core/review_executor.py: run_agent_review), the shared      *)
(* debug-writer registry (councilor._debug_writers), the review cache      *)
(* gateway (get_cached_review / cache_review) and the streaming event      *)
(* handler (ui/streaming.py: create_event_stream_handler).                 *)
(*                                                                         *)
(* One asyncio event loop runs the jobs; a job gives up control only at an *)
(* await, so every action below is the code between two awaits of a job.   *)
(***************************************************************************)
EXTENDS Integers, Sequences, FiniteSets, TLC

\* ---------------------------------------------------------------- bounds
MaxFiles == 2        \* longest input list of the small batches
MaxConfigured == 3   \* largest settings.max_concurrent_reviews
MaxFaults == 3       \* failures the collaborators inject in a small batch
BatchFiles == 6      \* length of the large batch (more than 5 files)
BatchFaults == 1     \* failures the collaborators inject in a large batch
MaxBatch == 12       \* longest list the limit computation is applied to
MaxSetting == 8      \* largest setting the limit computation is applied to
MaxEvents == 2       \* events the agent streams of a one-file batch deliver
RouterFaults == 1    \* failures the collaborators inject in such a batch
PairEvents == 2      \* events the agent streams of a two-file batch deliver
LiveFiles == 6       \* longest input list of the batches run to their end
LiveFaults == 1      \* failures the collaborators inject in such a batch

\* ------------------------------------------------------ program constants
MoreRetries == 3 + 1
max_retries == 3
base_delay == 5
SmallBatch == 5
MinLimit == 3

VARIABLES
  files_to_review,        \* the input list: a sequence of file paths
  no_cache,               \* --no-cache flag
  enable_cache,           \* settings.enable_cache
  max_concurrent_reviews, \* settings.max_concurrent_reviews
  spinner_enabled,        \* Spinner().enabled: stderr is a terminal
  model_name,             \* os.getenv("COUNCIL_MODEL") of this run
  review_config,          \* --phases / --extra-instructions of this run
  batch,                  \* "init", "running", "done", "aborted"
  concurrency_limit,      \* K, computed once by _review
  sem_value,              \* asyncio.Semaphore._value
  sem_waiters,            \* asyncio.Semaphore._waiters (FIFO of jobs)
  pc,                     \* per job: the await it is suspended at
  acquired,               \* per job: times it entered `async with semaphore`
  released,               \* per job: times it left `async with semaphore`
  attempt,                \* per job: loop variable of run_agent_review
  calls,                  \* per job: number of agent.run_stream invocations
  failures,               \* per job: the errors agent.run_stream raised
  spinner_tasks,          \* per job: number of spinner tasks created
  spinner_state,          \* per job: its latest spinner task
  remaining,              \* per job: time left of the current asyncio.sleep
  waited,                 \* per job: time elapsed in the current sleep
  backoff,                \* per job: the elapsed sleeps, in order
  debug_writers,          \* councilor._debug_writers: path -> owning job
  registered,             \* per job: number of register calls
  unregistered,           \* per job: number of pops of its key
  audit,                  \* per job: entries written to its DebugWriter
  debug_writers_lock,     \* councilor._debug_writers_lock: its holder, or 0
  sections,               \* per job: `with councilor._debug_writers_lock`
                          \* blocks it has run
  last_status,            \* per handler: last_status of the event handler
  tool_calls_tracked,     \* per handler: tool_call_id -> tool name
  current_status,         \* per job: Spinner.current_status, the line shown
  events,                 \* per job: the events its handler has consumed,
                          \* each with the attempt and spinner.active
  events_left,            \* events the agent streams may still deliver
  cache,                  \* review cache: path -> stored dump
  cache_hit,              \* per job: get_cached_review returned data
  results,                \* per job: what its task returned to gather
  raised,                 \* per job: errors that reached the job boundary
  overtaken,              \* a task finished before one earlier in the list
  absorbed,               \* jobs whose cancellation was lost
  all_results,            \* the list _review builds
  exit_status,            \* process exit status (0 = none)
  faults                  \* failures the collaborators may still inject

inputs == <<files_to_review, no_cache, enable_cache, max_concurrent_reviews,
            spinner_enabled, model_name, review_config>>
sem == <<sem_value, sem_waiters>>
slots == <<acquired, released>>
retry == <<attempt, calls, failures, spinner_tasks, spinner_state>>
timing == <<remaining, waited, backoff>>
registry == <<debug_writers, registered, unregistered, audit,
              debug_writers_lock, sections>>
caching == <<cache, cache_hit>>
outcome == <<results, raised, overtaken>>
process == <<batch, exit_status, absorbed>>
router == <<last_status, tool_calls_tracked, current_status, events,
            events_left>>

vars == <<inputs, sem, pc, slots, retry, timing, registry, caching, outcome,
          process, router, concurrency_limit, all_results, faults>>

Jobs == DOMAIN files_to_review
N == Len(files_to_review)

\* ----------------------------------------------------------------- values
NoResult == [kind |-> "pending"]
None == [kind |-> "None"]
\* The ReviewResult the agent produced for job j in attempt a (0-based)
\* when asked for the review phases and extra instructions c.
ReviewResult(j, a, c) ==
  [kind |-> "ReviewResult", job |-> j, attempt |-> a, config |-> c]
\* review_result.model_dump() and ReviewResult(**cached_data)
model_dump(r) ==
  [kind |-> "dict", job |-> r.job, attempt |-> r.attempt, config |-> r.config]
FromCachedDefaults(d) ==
  [kind |-> "ReviewResult", job |-> d.job, attempt |-> 0, config |-> d.config]
FromCached(d) ==
  [kind |-> "ReviewResult", job |-> d.job, attempt |-> d.attempt,
   config |-> d.config]
\* a result stored by an earlier run of the program, which was asked for
\* the phases and instructions c
Stored(c) == model_dump(ReviewResult(0, 0, c))
\* the phases/instructions and the models a run may be started with
Configs == {1, 2}
Models == {1, 2}

\* Errors: the exception type and the markers its message contains.
Error(t, rl, nk) == [type |-> t, rate_limit |-> rl, no_api_keys |-> nk]
NotFoundError == Error("FileNotFoundError", FALSE, FALSE)
ToolExecutionError == Error("RuntimeError", FALSE, FALSE)
ConfigurationError == Error("RuntimeError", FALSE, TRUE)
RateLimitError == Error("Exception", TRUE, FALSE)
UnexpectedError == Error("Exception", FALSE, FALSE)

\* what get_packed_context / get_packed_diff may raise
ExtractErrors == {NotFoundError, ToolExecutionError}
\* what agent.run_stream may raise (provider errors); the message "No API
\* keys configured" comes from the credential check of get_councilor_agent.
AgentErrors == {RateLimitError, UnexpectedError}

\* review_executor.py 207-214: is_rate_limit
is_rate_limit_any(e) == TRUE
is_rate_limit(e) == e.rate_limit

\* review.py 330-333: "No API keys configured" in error_msg or "API key" in
\* error_msg.lower(); the second test looks for capitals in a lowered
\* string and never matches.
IsAnyRuntimeError(e) == e.type = "RuntimeError"
IsConfigurationError(e) == e.type = "RuntimeError" /\ e.no_api_keys

RECURSIVE Pow2(_)
Pow2(n) == IF n = 0 THEN 1 ELSE 2 * Pow2(n - 1)

\* review_executor.py 221: delay = base_delay * (2**attempt)
DelayConstant(a) == base_delay
Delay(a) == base_delay * Pow2(a)

\* review_executor.py 220: attempt < max_retries - 1
MayRetryAlways(a) == TRUE
MayRetryNever(a) == FALSE
MayRetryAfterLast(a) == a < max_retries
MayRetry(a) == a < max_retries - 1

Min(a, b) == IF a <= b THEN a ELSE b
Max(a, b) == IF a >= b THEN a ELSE b

\* review.py 404-409: the concurrency limit
ConcurrencyLimit(n, configured) ==
  IF n <= SmallBatch THEN n ELSE Min(configured, Max(MinLimit, n \div 2))

\* review.py 410: asyncio.Semaphore(concurrency_limit), its initial value
SemaphoreOfBatch(limit) == N
SemaphoreOneMore(limit) == limit + 1
Semaphore(limit) == limit

\* review.py 259 and 278
CacheEnabledByFlag == ~no_cache
CacheEnabled == ~no_cache /\ enable_cache

\* --------------------------------------------------------------- registry
\* councilor._debug_writers[deps.file_path] = debug_writer
Register(reg, key, j) ==
  [p \in DOMAIN reg \cup {key} |-> IF p = key THEN j ELSE reg[p]]
\* councilor._debug_writers.pop(deps.file_path, None)
UnregisterNothing(reg, key) == reg
Unregister(reg, key) == [p \in DOMAIN reg \ {key} |-> reg[p]]
\* councilor._debug_writers.get(key): the owning job, 0 when absent
Lookup(reg, key) == IF key \in DOMAIN reg THEN reg[key] ELSE 0

\* review_executor.py 59-60, 194-195, 233-234: the holder of the lock when
\* the step of job j that ran `with councilor._debug_writers_lock:` ends.
\* The block is one dict operation and has no await, so the step leaves
\* the block and the lock is free again.
HeldOverSuspension(j) == j
AfterWith(j) == 0

\* `with councilor._debug_writers_lock:` run by job j: the lock is taken
\* when free (a job that found it taken would wait for it) and the block
\* is run.
WithLock(j) ==
  /\ debug_writers_lock = 0
  /\ debug_writers_lock' = AfterWith(j)
  /\ sections' = [sections EXCEPT ![j] = @ + 1]

\* ------------------------------------------------------------------ cache
\* review.py 260-261 and 279-283: the arguments that identify the entry are
\* str(file_path) and model_name.
CacheKey(path, model) == <<path, model>>
Miss == [kind |-> "miss"]
CacheGet(c, key) == IF key \in DOMAIN c THEN c[key] ELSE Miss
CachePutIfAbsent(c, key, d) ==
  [p \in DOMAIN c \cup {key} |-> IF p \in DOMAIN c THEN c[p] ELSE d]
CachePut(c, key, d) ==
  [p \in DOMAIN c \cup {key} |-> IF p = key THEN d ELSE c[p]]
\* review.py 262 and 267: `if cached_data:` / `if cached_result:`
UseCachedNever(data) == FALSE
UseCached(data) == data # Miss

\* ----------------------------------------------------------- event router
\* streaming.py 22-116.  The tools of the agent, the tool call ids of a run
\* (NoCallId: the attribute is None or missing) and the argument payloads
\* of a tool call part: none, a string that json.loads parses, a string it
\* rejects.
Tools == {"get_file", "search"}
NoTool == "None"
CallIds == {1, 2}
NoCallId == 0
NoArguments == "None"
JsonText == "json text"
RawText == "raw text"
Arguments == {NoArguments, JsonText, RawText}

PartStartEvent(tool, arguments) ==
  [kind |-> "PartStartEvent", tool_name |-> tool, arguments |-> arguments]
PartDeltaEvent(delta) == [kind |-> "PartDeltaEvent", delta |-> delta]
FunctionToolCallEvent(tool, id) ==
  [kind |-> "FunctionToolCallEvent", tool_name |-> tool, tool_call_id |-> id]
FunctionToolResultEvent(tool, id) ==
  [kind |-> "FunctionToolResultEvent", tool_name |-> tool,
   tool_call_id |-> id]
FinalResultEvent == [kind |-> "FinalResultEvent"]

\* the events a stream may deliver: a text part and a tool call part start,
\* deltas of both, tool calls with and without an id, tool results
StreamEvents ==
  {PartStartEvent(NoTool, NoArguments)}
    \cup {PartStartEvent("get_file", a) : a \in Arguments}
    \cup {PartDeltaEvent("TextPartDelta"), PartDeltaEvent("ToolCallPartDelta")}
    \cup {FunctionToolCallEvent("get_file", 1),
          FunctionToolCallEvent("search", 2),
          FunctionToolCallEvent("get_file", NoCallId)}
    \cup {FunctionToolResultEvent("get_file", 1),
          FunctionToolResultEvent("search", 2)}
    \cup {FinalResultEvent}

\* A status line: a fixed phrase and the tool name formatted into it.
Status(phrase, tool) == [phrase |-> phrase, tool |-> tool]
\* streaming.py 35: last_status = ""
NoStatus == Status("", NoTool)
\* review_executor.py 94
Receiving == Status("Receiving review results...", NoTool)
\* spinner.py 23: the status line of a new Spinner
Analyzing == Status("Analyzing code structure...", NoTool)

\* spinner.py 82-101 and 103-110: Spinner.active is set by run() and reset
\* by stop(); the spinner task has started when the first event comes in.
SpinnerNeverActive(j) == FALSE
SpinnerActive(j) == spinner_state[j] = "running"

\* streaming.py 51-114: the status an event derives, if any
DerivedStatusByPart(ev, active) ==
  CASE ev.kind = "PartStartEvent" -> {Status("Generating review...", NoTool)}
    [] ev.kind = "PartDeltaEvent" ->
         IF ev.delta = "TextPartDelta" /\ ~active
         THEN {Status("Writing review...", NoTool)} ELSE {}
    [] ev.kind = "FunctionToolCallEvent" ->
         {Status("Executing: ", ev.tool_name)}
    [] ev.kind = "FunctionToolResultEvent" -> {}
    [] ev.kind = "FinalResultEvent" ->
         {Status("Finalizing review...", NoTool)}
DerivedStatus(ev, active) ==
  CASE ev.kind = "PartStartEvent" ->
         IF ev.tool_name # NoTool
         THEN {Status("Calling tool: ", ev.tool_name)}
         ELSE {Status("Generating review...", NoTool)}
    [] ev.kind = "PartDeltaEvent" ->
         IF ev.delta = "TextPartDelta" /\ ~active
         THEN {Status("Writing review...", NoTool)} ELSE {}
    [] ev.kind = "FunctionToolCallEvent" ->
         {Status("Executing: ", ev.tool_name)}
    [] ev.kind = "FunctionToolResultEvent" -> {}
    [] ev.kind = "FinalResultEvent" ->
         {Status("Finalizing review...", NoTool)}

\* streaming.py 72, 80, 91, 112: `if new_status != last_status`
Emitted(ev, active, last) == {st \in DerivedStatus(ev, active) : st # last}

\* streaming.py 60-67: json.loads of a string payload; a payload that does
\* not parse is kept as it is.
ParseOrDrop(a) == IF a = JsonText THEN "dict" ELSE NoArguments
ParseArguments(a) == IF a = JsonText THEN "dict" ELSE a
\* streaming.py 69: `arguments or {}`
OrEmpty(a) == IF a = NoArguments THEN "{}" ELSE a

\* spinner.py 40-51, called at streaming.py 73, 81, 92, 113: the status line
\* after show_status(message) for every emitted message (none or one); a
\* spinner that is not enabled shows nothing.
show_status(current, emitted) ==
  IF spinner_enabled /\ emitted # {} THEN CHOOSE st \in emitted : TRUE
  ELSE current

\* streaming.py 86-88: the call-id map after the event
TrackNothing(tracked, ev) == tracked
Track(tracked, ev) ==
  IF ev.kind = "FunctionToolCallEvent" /\ ev.tool_call_id # NoCallId
  THEN [c \in DOMAIN tracked \cup {ev.tool_call_id} |->
          IF c = ev.tool_call_id THEN ev.tool_name ELSE tracked[c]]
  ELSE tracked
\* streaming.py 101: tool_calls_tracked.get(tool_call_id, "unknown_tool")
TrackedNameOfPart(tracked, ev) == ev.tool_name
TrackedName(tracked, ev) ==
  IF ev.tool_call_id \in DOMAIN tracked THEN tracked[ev.tool_call_id]
  ELSE "unknown_tool"

\* An entry of a debug record; entries of the router carry the position of
\* the event they were written for (0: not written by the router).
Entry(kind) == [kind |-> kind]
ToolCallEntry(tool, arguments, call_id, event) ==
  [kind |-> "tool_call", tool_name |-> tool, arguments |-> arguments,
   call_id |-> call_id, event |-> event]
ToolOutputEntry(tool, call_id, event) ==
  [kind |-> "tool_output", tool_name |-> tool, call_id |-> call_id,
   event |-> event]

\* streaming.py 55-69 and 96-109: the entries the handler writes for an
\* event that is the event-th of the job's stream
RouterEntries(ev, tracked, event) ==
  CASE ev.kind = "PartStartEvent" /\ ev.tool_name # NoTool ->
         <<ToolCallEntry(ev.tool_name, OrEmpty(ParseArguments(ev.arguments)),
                         NoCallId, event)>>
    [] ev.kind = "FunctionToolResultEvent" ->
         <<ToolOutputEntry(TrackedName(tracked, ev), ev.tool_call_id, event)>>
    [] OTHER -> <<>>

\* DebugWriter.write_*: an entry is added at the end of the record
WriteFirst(record, entries) == entries \o record
Write(record, entries) == record \o entries

\* review_executor.py 62: each run_agent_review call creates its own
\* handler, whose last_status and tool_calls_tracked are its closure's.
SharedHandler(j) == 1
HandlerOf(j) == j

\* ------------------------------------------------------------------- Init
InitCommon ==
  /\ batch = "init"
  /\ concurrency_limit = 0
  /\ sem_value = 0
  /\ sem_waiters = <<>>
  /\ pc = [j \in Jobs |-> "created"]
  /\ acquired = [j \in Jobs |-> 0]
  /\ released = [j \in Jobs |-> 0]
  /\ attempt = [j \in Jobs |-> 0]
  /\ calls = [j \in Jobs |-> 0]
  /\ failures = [j \in Jobs |-> <<>>]
  /\ spinner_tasks = [j \in Jobs |-> 0]
  /\ spinner_state = [j \in Jobs |-> "none"]
  /\ remaining = [j \in Jobs |-> 0]
  /\ waited = [j \in Jobs |-> 0]
  /\ backoff = [j \in Jobs |-> <<>>]
  /\ debug_writers = <<>>
  /\ registered = [j \in Jobs |-> 0]
  /\ unregistered = [j \in Jobs |-> 0]
  /\ audit = [j \in Jobs |-> <<>>]
  /\ debug_writers_lock = 0
  /\ sections = [j \in Jobs |-> 0]
  /\ cache_hit = [j \in Jobs |-> FALSE]
  /\ results = [j \in Jobs |-> NoResult]
  /\ raised = [j \in Jobs |-> <<>>]
  /\ overtaken = FALSE
  /\ all_results = <<>>
  /\ exit_status = 0
  /\ absorbed = {}
  /\ last_status = [j \in Jobs |-> NoStatus]
  /\ tool_calls_tracked = [j \in Jobs |-> <<>>]
  /\ current_status = [j \in Jobs |-> NoStatus]
  /\ events = [j \in Jobs |-> <<>>]

\* File lists up to renaming of the files: every file is 1 or at most one
\* more than the files before it.
Canonical(f) ==
  \A i \in DOMAIN f : \A p \in 1..(f[i] - 1) : \E k \in 1..(i - 1) : f[k] = p

\* A small batch: any list of up to MaxFiles paths (collect_files keeps
\* duplicates), caching on, off by the flag or off by the setting, an empty
\* cache or one that holds one of the files (with caching off the cache is
\* never read: it holds file 1); the runs on a terminal are those with
\* --no-cache.  The concurrency setting is not read for a list of at most
\* SmallBatch files.
InitSmall ==
  /\ \E n \in 1..MaxFiles :
       /\ files_to_review \in [1..n -> 1..n]
       /\ Canonical(files_to_review)
  /\ no_cache \in BOOLEAN
  /\ enable_cache \in BOOLEAN
  /\ no_cache => enable_cache
  /\ spinner_enabled \in BOOLEAN
  /\ spinner_enabled => no_cache
  /\ max_concurrent_reviews = MaxConfigured
  /\ model_name = 1
  /\ review_config = 1
  /\ cache \in {<<>>} \cup {[k \in {CacheKey(q, 1)} |-> Stored(1)] :
                              q \in {files_to_review[i] : i \in Jobs}}
  /\ (no_cache \/ ~enable_cache) =>
       cache = [k \in {CacheKey(1, 1)} |-> Stored(1)]
  /\ faults = MaxFaults
  /\ events_left = 0
  /\ InitCommon

\* A large batch: BatchFiles different files, so that the limit is below the
\* number of jobs and jobs queue for a slot; caching is on and the cache
\* holds file 1.  The setting goes up to MinLimit: for a batch of this
\* length a larger one gives the same limit.
InitBatch ==
  /\ files_to_review = [i \in 1..BatchFiles |-> i]
  /\ no_cache = FALSE
  /\ enable_cache = TRUE
  /\ spinner_enabled = FALSE
  /\ max_concurrent_reviews \in 1..MinLimit
  /\ model_name = 1
  /\ review_config = 1
  /\ cache = [k \in {CacheKey(1, 1)} |-> Stored(1)]
  /\ faults = BatchFaults
  /\ events_left = 0
  /\ InitCommon

\* The program starts with a small or with a large batch.
Init == InitSmall \/ InitBatch

\* A small batch with caching on and no terminal, run with any model and
\* any phases/instructions; an earlier run with model 1 and configuration 1
\* may have stored one of the files.
InitCache ==
  /\ \E n \in 1..MaxFiles :
       /\ files_to_review \in [1..n -> 1..n]
       /\ Canonical(files_to_review)
  /\ no_cache = FALSE
  /\ enable_cache = TRUE
  /\ spinner_enabled = FALSE
  /\ max_concurrent_reviews = MaxConfigured
  /\ model_name \in Models
  /\ review_config \in Configs
  /\ cache \in {<<>>} \cup {[k \in {CacheKey(q, 1)} |-> Stored(1)] :
                              q \in {files_to_review[i] : i \in Jobs}}
  /\ faults = MaxFaults
  /\ events_left = 0
  /\ InitCommon

\* The limit computation alone, over lists of up to MaxBatch files and
\* settings up to MaxSetting.
InitLimit ==
  /\ \E n \in 1..MaxBatch : files_to_review = [i \in 1..n |-> 1]
  /\ no_cache \in BOOLEAN
  /\ enable_cache = TRUE
  /\ spinner_enabled = FALSE
  /\ max_concurrent_reviews \in 1..MaxSetting
  /\ model_name = 1
  /\ review_config = 1
  /\ cache = <<>>
  /\ faults = 0
  /\ events_left = 0
  /\ InitCommon

\* A job runs while the loop runs the batch; after the abort only a job
\* whose cancellation was lost goes on.
Running(j) == batch = "running" \/ (batch = "aborted" /\ j \in absorbed)

\* spinner.py 82-101: a cancelled spinner task is run by the loop before a
\* job that suspended after the cancel runs again (the loop runs callbacks
\* in the order they were scheduled): Spinner.run catches the
\* CancelledError and returns.  st is the task's state when the job
\* resumes.
AfterSuspension(st) == IF st = "cancelling" THEN "finished" ELSE st

\* review.py 272: the Spinner is a local of the job, created for the call
\* of run_agent_review and gone with the job; line is its current_status
\* after the step if the job goes on.
SpinnerLine(j, line) ==
  current_status' =
    [current_status EXCEPT
       ![j] = IF pc'[j] \in {"done", "cancelled"} THEN NoStatus ELSE line]

\* -------------------------------------------------------------- semaphore
\* asyncio.Semaphore.release / _wake_up_next, as run by `async with
\* semaphore` (review.py 205) when job j leaves the block: the slot goes to
\* the first waiter whose future is still pending, else back to the
\* counter.  After the abort every waiter's future has been cancelled, so
\* none is woken.
ReleaseNoWake(j, state) ==
  /\ pc' = [pc EXCEPT ![j] = state]
  /\ sem_value' = sem_value + 1
  /\ UNCHANGED sem_waiters
Release(j, state) ==
  IF sem_waiters # <<>> /\ batch = "running"
  THEN /\ pc' = [pc EXCEPT ![j] = state, ![Head(sem_waiters)] = "woken"]
       /\ sem_waiters' = Tail(sem_waiters)
       /\ UNCHANGED sem_value
  ELSE /\ pc' = [pc EXCEPT ![j] = state]
       /\ sem_value' = sem_value + 1
       /\ UNCHANGED sem_waiters

\* The task of job j leaves the block and finishes with value val (what
\* gather collects).
Finished(j, val) ==
  /\ Release(j, "done")
  /\ released' = [released EXCEPT ![j] = @ + 1]
  /\ results' = [results EXCEPT ![j] = val]
  /\ overtaken' = (overtaken \/ \E k \in 1..(j - 1) : pc[k] # "done")
  /\ UNCHANGED acquired

\* review.py 286-322: the success path of _review_single_file
Success(j, r) ==
  [kind |-> "tuple", file_path |-> files_to_review[j], review_result |-> r]

ReturnResult(j, r) ==
  /\ Finished(j, Success(j, r))
  /\ UNCHANGED <<process, raised>>

\* review.py 324-396: the except clauses at the job boundary.  Only a
\* RuntimeError carrying the missing-credentials message ends the process
\* (sys.exit(1)); any other error makes the job return None.
Handle(j, e) ==
  /\ raised' = [raised EXCEPT ![j] = Append(@, e)]
  /\ IF IsConfigurationError(e)
     THEN /\ Finished(j, [kind |-> "SystemExit"])
          /\ batch' = "aborted"
          /\ exit_status' = 1
          /\ UNCHANGED absorbed
     ELSE /\ Finished(j, None)
          /\ UNCHANGED process

\* ------------------------------------------------------------ batch start
\* review.py 398-423: _review computes the limit, creates the semaphore and
\* the tasks; gather runs every task up to its first await: the first jobs
\* take the slots and start context extraction, the others queue up.
StartBatch ==
  /\ batch = "init"
  /\ batch' = "running"
  /\ LET K == ConcurrencyLimit(N, max_concurrent_reviews)
         taken == Min(Semaphore(K), N)
     IN /\ concurrency_limit' = K
        /\ sem_value' = Semaphore(K) - taken
        /\ sem_waiters' = [i \in 1..(N - taken) |-> taken + i]
        /\ pc' = [j \in Jobs |-> IF j <= taken THEN "extract" ELSE "acquire"]
        /\ acquired' = [j \in Jobs |-> IF j <= taken THEN 1 ELSE 0]
  /\ UNCHANGED <<inputs, released, retry, timing, registry, caching, outcome,
                 exit_status, absorbed, router, all_results, faults>>

\* review.py 205: a woken waiter enters the block and starts extraction.
Woken(j) ==
  /\ batch = "running"
  /\ pc[j] = "woken"
  /\ pc' = [pc EXCEPT ![j] = "extract"]
  /\ acquired' = [acquired EXCEPT ![j] = @ + 1]
  /\ UNCHANGED <<inputs, sem, released, retry, timing, registry, caching,
                 outcome, process, router, concurrency_limit, all_results,
                 faults>>

\* --------------------------------------------------- entering the executor
\* review_executor.py 69-82: an attempt up to the await of agent.run_stream
StartAttempt(j) ==
  /\ spinner_tasks' = [spinner_tasks EXCEPT
                         ![j] = IF spinner_enabled THEN @ + 1 ELSE @]
  /\ spinner_state' = [spinner_state EXCEPT
                         ![j] = IF spinner_enabled THEN "running" ELSE @]
  /\ calls' = [calls EXCEPT ![j] = @ + 1]
  /\ pc' = [pc EXCEPT ![j] = "agent"]

\* review_executor.py 33-82: get_councilor_agent, the DebugWriter and its
\* user prompt, the registration under deps.file_path, the first attempt.
EnterExecutor(j) ==
  /\ audit' = [audit EXCEPT ![j] = Append(@, Entry("user_prompt"))]
  /\ WithLock(j)
  /\ debug_writers' = Register(debug_writers, files_to_review[j], j)
  /\ registered' = [registered EXCEPT ![j] = @ + 1]
  /\ attempt' = [attempt EXCEPT ![j] = 0]
  /\ StartAttempt(j)
  /\ UNCHANGED <<sem, slots, failures, unregistered, outcome, process,
                 faults>>

\* review_executor.py 33: get_councilor_agent finds no provider credentials
\* and raises RuntimeError("No API keys configured ...").
NoCredentials(j) ==
  /\ faults > 0
  /\ faults' = faults - 1
  /\ Handle(j, ConfigurationError)
  /\ UNCHANGED <<retry, registry>>

\* review.py 270-275: run_agent_review is called
RunAgentReview(j) == EnterExecutor(j) \/ NoCredentials(j)

\* ------------------------------------------------------ context extraction
\* review.py 219-275: get_packed_context returns or raises.
ExtractDone(j) ==
  /\ Running(j)
  /\ pc[j] = "extract"
  /\ \/ \E e \in ExtractErrors :
          /\ faults > 0
          /\ faults' = faults - 1
          /\ Handle(j, e)
          /\ UNCHANGED <<retry, registry>>
     \/ /\ CacheEnabled
        /\ pc' = [pc EXCEPT ![j] = "cache_get"]
        /\ UNCHANGED <<sem, slots, retry, registry, outcome, process, faults>>
     \/ /\ ~CacheEnabled
        /\ RunAgentReview(j)
  /\ UNCHANGED <<inputs, timing, caching, last_status, tool_calls_tracked,
                 events, events_left, concurrency_limit, all_results>>
  /\ SpinnerLine(j, IF pc'[j] = "agent" THEN Analyzing ELSE current_status[j])

\* review.py 267-284: cache_review is in the else branch of `if
\* cached_result`, under `not no_cache and settings.enable_cache`: only a
\* fresh result is stored.
StoresAny(fresh) == CacheEnabled
Stores(fresh) == fresh /\ CacheEnabled

\* review.py 267-322: with the review result r in hand the job stores it
\* or returns.
AfterReview(j, r, fresh) ==
  IF Stores(fresh)
  THEN /\ pc' = [pc EXCEPT ![j] = "cache_put"]
       /\ UNCHANGED <<sem, slots, outcome, process>>
  ELSE ReturnResult(j, r)

\* review.py 257-275: get_cached_review returns stored data or nothing.
CacheGetDone(j) ==
  /\ Running(j)
  /\ pc[j] = "cache_get"
  /\ LET cached_data ==
           CacheGet(cache, CacheKey(files_to_review[j], model_name))
     IN /\ cache_hit' = [cache_hit EXCEPT ![j] = (cached_data # Miss)]
        /\ IF UseCached(cached_data)
           THEN /\ AfterReview(j, FromCached(cached_data), FALSE)
                /\ UNCHANGED <<retry, registry, faults>>
           ELSE RunAgentReview(j)
  /\ UNCHANGED <<inputs, timing, cache, last_status, tool_calls_tracked,
                 events, events_left, concurrency_limit, all_results>>
  /\ SpinnerLine(j, IF pc'[j] = "agent" THEN Analyzing ELSE current_status[j])

\* ------------------------------------------------------------ event router
\* streaming.py 50-114: the handler of job j consumes the next event of the
\* stream of the current attempt: it derives a status and shows it when it
\* differs from last_status, tracks a tool call under its id and writes the
\* tool-call / tool-output entry.  The events come in while the job is
\* inside agent.run_stream, before and after the first partial result.
RouterEvent(j, ev) ==
  /\ Running(j)
  /\ pc[j] \in {"agent", "streaming"}
  /\ events_left > 0
  /\ events_left' = events_left - 1
  /\ LET h == HandlerOf(j)
         event == Len(events[j]) + 1
         emitted == Emitted(ev, SpinnerActive(j), last_status[h])
     IN /\ events' = [events EXCEPT
                        ![j] = Append(@, [event |-> ev,
                                          attempt |-> attempt[j],
                                          active |-> SpinnerActive(j)])]
        /\ current_status' = [current_status EXCEPT
                                ![j] = show_status(@, emitted)]
        /\ last_status' = [last_status EXCEPT
                             ![h] = IF emitted = {} THEN @
                                    ELSE CHOOSE st \in emitted : TRUE]
        /\ tool_calls_tracked' = [tool_calls_tracked EXCEPT
                                    ![h] = Track(@, ev)]
        /\ audit' = [audit EXCEPT
                       ![j] = Write(@, RouterEntries(ev, tool_calls_tracked[h],
                                                     event))]
  /\ UNCHANGED <<inputs, sem, pc, slots, retry, timing, debug_writers,
                 registered, unregistered, debug_writers_lock, sections,
                 caching, outcome, process, concurrency_limit, all_results,
                 faults>>

\* review_executor.py 99-179: after get_output the attempt goes through the
\* messages of the run and writes a tool-output entry for every part that
\* carries a result and a tool name: one per tool result of this attempt,
\* when the run object exposes its messages.
ToolResultsOfRun(j) ==
  LET rs == SelectSeq(events[j],
                      LAMBDA r : /\ r.attempt = attempt[j]
                                 /\ r.event.kind = "FunctionToolResultEvent")
  IN [i \in 1..Len(rs) |->
        ToolOutputEntry(rs[i].event.tool_name, rs[i].event.tool_call_id, 0)]

\* ------------------------------------------------------- retry controller
\* review_executor.py 96-201: the attempt succeeds: the agent response is
\* written, the registry entry popped and the result returned; review.py
\* 277-284 then stores it when caching is on.
AgentSucceeds(j) ==
  /\ \E scanned \in {<<>>, ToolResultsOfRun(j)} :
       audit' = [audit EXCEPT
                   ![j] = Append(@ \o scanned, Entry("agent_response"))]
  /\ WithLock(j)
  /\ debug_writers' = Unregister(debug_writers, files_to_review[j])
  /\ unregistered' = [unregistered EXCEPT ![j] = @ + 1]
  /\ AfterReview(j, ReviewResult(j, attempt[j], review_config), TRUE)
  /\ UNCHANGED <<failures, remaining, waited, registered, faults>>

\* review_executor.py 84-94: the first partial result comes in.  With a
\* spinner task the attempt cancels it and drops its handle without
\* awaiting it; then the stream either suspends again or is already
\* complete, and the attempt goes on to its end without suspending.
\* Without a spinner the step changes nothing and is taken together with
\* the end of the stream.
PartialResult(j) ==
  IF spinner_enabled
  THEN /\ spinner_state' = [spinner_state EXCEPT ![j] = "cancelling"]
       /\ \/ /\ pc' = [pc EXCEPT ![j] = "streaming"]
             /\ UNCHANGED <<sem, slots, failures, remaining, waited,
                            registry, outcome, process, faults>>
          \/ AgentSucceeds(j)
       /\ SpinnerLine(j, Receiving)
  ELSE /\ AgentSucceeds(j)
       /\ UNCHANGED spinner_state
       /\ SpinnerLine(j, current_status[j])

\* review_executor.py 219-236: a rate-limit error before the last attempt
\* starts the backoff sleep; any other error, or the last attempt's, is
\* written, unregistered and re-raised.
FailureWrittenFirst(j, e) ==
  /\ audit' = [audit EXCEPT ![j] = Append(@, Entry("error"))]
  /\ IF is_rate_limit(e) /\ MayRetry(attempt[j])
     THEN /\ pc' = [pc EXCEPT ![j] = "sleep"]
          /\ remaining' = [remaining EXCEPT ![j] = Delay(attempt[j])]
          /\ waited' = [waited EXCEPT ![j] = 0]
          /\ UNCHANGED <<sem, slots, debug_writers, registered, unregistered,
                         debug_writers_lock, sections, outcome, process>>
     ELSE /\ WithLock(j)
          /\ debug_writers' = Unregister(debug_writers, files_to_review[j])
          /\ unregistered' = [unregistered EXCEPT ![j] = @ + 1]
          /\ Handle(j, e)
          /\ UNCHANGED <<remaining, waited, registered>>
FailureHandled(j, e) ==
  IF is_rate_limit(e) /\ MayRetry(attempt[j])
  THEN /\ pc' = [pc EXCEPT ![j] = "sleep"]
       /\ remaining' = [remaining EXCEPT ![j] = Delay(attempt[j])]
       /\ waited' = [waited EXCEPT ![j] = 0]
       /\ UNCHANGED <<sem, slots, registry, outcome, process>>
  ELSE /\ audit' = [audit EXCEPT ![j] = Append(@, Entry("error"))]
       /\ WithLock(j)
       /\ debug_writers' = Unregister(debug_writers, files_to_review[j])
       /\ unregistered' = [unregistered EXCEPT ![j] = @ + 1]
       /\ Handle(j, e)
       /\ UNCHANGED <<remaining, waited, registered>>

\* review_executor.py 205-217: the attempt raises e.  cleanup_spinner_task
\* (streaming.py 119-125) cancels a spinner task that is still running and
\* awaits it; with no such task the handler goes on at once.
AgentFails(j, e) ==
  /\ faults > 0
  /\ faults' = faults - 1
  /\ failures' = [failures EXCEPT ![j] = Append(@, e)]
  /\ IF spinner_state[j] = "running"
     THEN /\ spinner_state' = [spinner_state EXCEPT ![j] = "cancelling"]
          /\ pc' = [pc EXCEPT ![j] = "cleanup"]
          /\ UNCHANGED <<sem, slots, remaining, waited, registry, outcome,
                         process>>
     ELSE /\ FailureHandled(j, e)
          /\ UNCHANGED spinner_state
  /\ SpinnerLine(j, current_status[j])

\* review_executor.py 78-97: agent.run_stream is awaited
AgentDone(j) ==
  /\ Running(j)
  /\ pc[j] = "agent"
  /\ (PartialResult(j) \/ \E e \in AgentErrors : AgentFails(j, e))
  /\ UNCHANGED <<inputs, attempt, calls, spinner_tasks, backoff,
                 caching, concurrency_limit, all_results,
                 last_status, tool_calls_tracked, events, events_left>>

\* review_executor.py 85-97: the rest of the stream after the first partial
\* result.  The job was suspended, so the cancelled spinner task is over;
\* the handler of a failure finds no task to await (spinner_task is None).
StreamDone(j) ==
  /\ Running(j)
  /\ pc[j] = "streaming"
  /\ spinner_state' = [spinner_state EXCEPT ![j] = AfterSuspension(@)]
  /\ \/ AgentSucceeds(j)
     \/ \E e \in AgentErrors :
          /\ faults > 0
          /\ faults' = faults - 1
          /\ failures' = [failures EXCEPT ![j] = Append(@, e)]
          /\ FailureHandled(j, e)
  /\ UNCHANGED <<inputs, attempt, calls, spinner_tasks, backoff, caching,
                 concurrency_limit, all_results,
                 last_status, tool_calls_tracked, events, events_left>>
  /\ SpinnerLine(j, current_status[j])

\* streaming.py 124-125 and review_executor.py 219-236: wait_for returns
\* when the spinner task is over; the handler goes on with the error.
CleanupDone(j) ==
  /\ Running(j)
  /\ pc[j] = "cleanup"
  /\ spinner_state' = [spinner_state EXCEPT ![j] = AfterSuspension(@)]
  /\ FailureHandled(j, failures[j][Len(failures[j])])
  /\ UNCHANGED <<inputs, attempt, calls, failures, spinner_tasks, backoff,
                 caching, concurrency_limit, all_results, faults,
                 last_status, tool_calls_tracked, events, events_left>>
  /\ SpinnerLine(j, current_status[j])

\* spinner.py 82-101: the cancelled spinner task of a job that went on to
\* its end without suspending runs after the job is over.
SpinnerStep(j) ==
  /\ pc[j] \in {"done", "cancelled"}
  /\ spinner_state[j] = "cancelling"
  /\ spinner_state' = [spinner_state EXCEPT ![j] = "finished"]
  /\ UNCHANGED <<inputs, sem, pc, slots, attempt, calls, failures,
                 spinner_tasks, timing, registry, caching, outcome, process,
                 concurrency_limit, all_results, faults, router>>

\* review_executor.py 69: the next value of range(max_retries)
SameAttempt(a) == a
NextAttempt(a) == a + 1

\* review_executor.py 227-228 and 69-82: asyncio.sleep(delay) is over, the
\* loop goes on with the next attempt; were the range used up, 241-242.
SleepDone(j) ==
  /\ Running(j)
  /\ pc[j] = "sleep"
  /\ remaining[j] = 0
  /\ backoff' = [backoff EXCEPT ![j] = Append(@, waited[j])]
  /\ IF NextAttempt(attempt[j]) < max_retries
     THEN /\ attempt' = [attempt EXCEPT ![j] = NextAttempt(@)]
          /\ StartAttempt(j)
          /\ UNCHANGED <<sem, slots, outcome, process>>
     ELSE /\ Handle(j, ToolExecutionError)
          /\ UNCHANGED <<attempt, calls, spinner_tasks, spinner_state>>
  /\ UNCHANGED <<inputs, failures, remaining, waited, registry, caching,
                 concurrency_limit, all_results, faults,
                 last_status, tool_calls_tracked, events, events_left>>
  /\ SpinnerLine(j, current_status[j])

\* Time passes until the earliest pending asyncio.sleep timer is due, for
\* every job inside asyncio.sleep.
Sleeping == {j \in Jobs : Running(j) /\ pc[j] = "sleep" /\ remaining[j] > 0}

Tick ==
  /\ Sleeping # {}
  /\ LET d == CHOOSE t \in {remaining[j] : j \in Sleeping} :
                 \A j \in Sleeping : t <= remaining[j]
     IN /\ remaining' = [j \in Jobs |->
              IF j \in Sleeping THEN remaining[j] - d ELSE remaining[j]]
        /\ waited' = [j \in Jobs |->
              IF j \in Sleeping THEN waited[j] + d ELSE waited[j]]
  /\ UNCHANGED <<inputs, sem, pc, slots, retry, backoff, registry, caching,
                 outcome, process, concurrency_limit, all_results, faults,
                 router>>

\* review.py 277-322: cache_review has stored the dump; the job returns.
CachePutDone(j) ==
  /\ Running(j)
  /\ pc[j] = "cache_put"
  /\ cache' = CachePut(cache, CacheKey(files_to_review[j], model_name),
                       model_dump(ReviewResult(j, attempt[j], review_config)))
  /\ ReturnResult(j, ReviewResult(j, attempt[j], review_config))
  /\ spinner_state' = [spinner_state EXCEPT ![j] = AfterSuspension(@)]
  /\ UNCHANGED <<inputs, attempt, calls, failures, spinner_tasks, timing,
                 registry, cache_hit,
                 concurrency_limit, all_results, faults,
                 last_status, tool_calls_tracked, events, events_left>>
  /\ SpinnerLine(j, current_status[j])

\* ------------------------------------------------------------ cancellation
\* sys.exit(1) in one task stops the loop; asyncio.run then cancels every
\* unfinished task.  CancelledError is raised at the await the job is
\* suspended at: a waiter leaves the queue without a slot, a woken waiter
\* gives its slot back, a job inside the block leaves it and releases.
\* run_agent_review re-raises the cancellation (202-204) without touching
\* the registry; its finally clause cancels and awaits a running spinner
\* task.  A job that is cancelled while it awaits the spinner task in
\* cleanup_spinner_task (streaming.py 124-125) loses the cancellation: the
\* request goes to the spinner task, whose run() returns normally, or is
\* suppressed by contextlib.suppress; the job goes on as if not cancelled.
CancelLeak(j) ==
  /\ batch = "aborted"
  /\ pc[j] \notin {"done", "cancelled"}
  /\ sem_waiters' = SelectSeq(sem_waiters, LAMBDA w : w # j)
  /\ pc' = [pc EXCEPT ![j] = "cancelled"]
  /\ results' = [results EXCEPT ![j] = [kind |-> "CancelledError"]]
  /\ UNCHANGED <<inputs, sem_value, slots, retry, timing, registry, caching,
                 raised, overtaken, process, concurrency_limit, all_results,
                 faults, router>>

CancelSwallowed(j) ==
  /\ batch = "aborted"
  /\ pc[j] \notin {"done", "cancelled"}
  /\ j \notin absorbed
  /\ absorbed' = absorbed \cup {j}
  /\ UNCHANGED <<inputs, sem, pc, slots, retry, timing, registry, caching,
                 outcome, batch, exit_status, router, concurrency_limit,
                 all_results, faults>>

Cancel(j) ==
  /\ batch = "aborted"
  /\ pc[j] \notin {"done", "cancelled"}
  /\ j \notin absorbed
  /\ IF pc[j] = "cleanup"
     THEN /\ absorbed' = absorbed \cup {j}
          /\ UNCHANGED <<sem, pc, released, results, spinner_state>>
     ELSE /\ IF pc[j] = "acquire"
             THEN /\ sem_waiters' = SelectSeq(sem_waiters, LAMBDA w : w # j)
                  /\ pc' = [pc EXCEPT ![j] = "cancelled"]
                  /\ UNCHANGED sem_value
             ELSE Release(j, "cancelled")
          /\ released' = [released EXCEPT
                ![j] = IF pc[j] \in {"acquire", "woken"} THEN @ ELSE @ + 1]
          /\ results' = [results EXCEPT ![j] = [kind |-> "CancelledError"]]
          /\ spinner_state' = [spinner_state EXCEPT
                ![j] = IF @ = "running" THEN "finished"
                       ELSE AfterSuspension(@)]
          /\ UNCHANGED absorbed
  /\ UNCHANGED <<inputs, acquired, attempt, calls, failures, spinner_tasks,
                 timing, registry, caching, raised, overtaken, batch,
                 exit_status, concurrency_limit, all_results, faults,
                 last_status, tool_calls_tracked, events, events_left>>
  /\ SpinnerLine(j, current_status[j])

\* ----------------------------------------------------------------- gather
\* review.py 423: gather returns the task results in the order of the
\* tasks, that is, of the input list.
InputOrder == [i \in 1..N |-> i]

\* review.py 425-431: exceptions and None are skipped.
CollectUnfiltered(res, order) == [i \in 1..Len(order) |-> res[order[i]]]
Collect(res, order) ==
  SelectSeq([i \in 1..Len(order) |-> res[order[i]]],
            LAMBDA r : r.kind = "tuple")

Gather ==
  /\ batch = "running"
  /\ \A j \in Jobs : pc[j] = "done"
  /\ all_results' = Collect(results, InputOrder)
  /\ batch' = "done"
  /\ UNCHANGED <<inputs, sem, pc, slots, retry, timing, registry, caching,
                 outcome, exit_status, absorbed, concurrency_limit, faults,
                 router>>

Next ==
  \/ StartBatch
  \/ \E j \in Jobs : Woken(j)
  \/ \E j \in Jobs : ExtractDone(j)
  \/ \E j \in Jobs : \E ev \in StreamEvents : RouterEvent(j, ev)
  \/ \E j \in Jobs : CacheGetDone(j)
  \/ \E j \in Jobs : AgentDone(j)
  \/ \E j \in Jobs : StreamDone(j)
  \/ \E j \in Jobs : CleanupDone(j)
  \/ \E j \in Jobs : SpinnerStep(j)
  \/ \E j \in Jobs : SleepDone(j)
  \/ Tick
  \/ \E j \in Jobs : CachePutDone(j)
  \/ \E j \in Jobs : Cancel(j)
  \/ Gather

Spec == Init /\ [][Next]_vars

\* The large batch runs without a terminal: no spinner task is created, so
\* none is cancelled or awaited.
NextBatch ==
  \/ StartBatch
  \/ \E j \in Jobs : Woken(j)
  \/ \E j \in Jobs : ExtractDone(j)
  \/ \E j \in Jobs : CacheGetDone(j)
  \/ \E j \in Jobs : AgentDone(j)
  \/ \E j \in Jobs : SleepDone(j)
  \/ Tick
  \/ \E j \in Jobs : CachePutDone(j)
  \/ \E j \in Jobs : Cancel(j)
  \/ Gather

SpecBatch == InitBatch /\ [][NextBatch]_vars

\* A list of at most SmallBatch files gets one slot per file, so no task
\* ever waits for a slot and none is woken.
NextSmall ==
  \/ StartBatch
  \/ \E j \in Jobs : ExtractDone(j)
  \/ \E j \in Jobs : CacheGetDone(j)
  \/ \E j \in Jobs : AgentDone(j)
  \/ \E j \in Jobs : StreamDone(j)
  \/ \E j \in Jobs : CleanupDone(j)
  \/ \E j \in Jobs : SpinnerStep(j)
  \/ \E j \in Jobs : SleepDone(j)
  \/ Tick
  \/ \E j \in Jobs : CachePutDone(j)
  \/ \E j \in Jobs : Cancel(j)
  \/ Gather

SpecSmall == InitSmall /\ [][NextSmall]_vars

\* A small batch without a terminal: no task waits for a slot and no
\* spinner task is created.
NextCache ==
  \/ StartBatch
  \/ \E j \in Jobs : ExtractDone(j)
  \/ \E j \in Jobs : CacheGetDone(j)
  \/ \E j \in Jobs : AgentDone(j)
  \/ \E j \in Jobs : SleepDone(j)
  \/ Tick
  \/ \E j \in Jobs : CachePutDone(j)
  \/ \E j \in Jobs : Cancel(j)
  \/ Gather

SpecCache == InitCache /\ [][NextCache]_vars

\* A batch of one file on a terminal, run with --no-cache; the agent
\* streams of its attempts deliver up to MaxEvents events.
InitRouter ==
  /\ files_to_review = <<1>>
  /\ no_cache = TRUE
  /\ enable_cache = TRUE
  /\ spinner_enabled = TRUE
  /\ max_concurrent_reviews = MaxConfigured
  /\ model_name = 1
  /\ review_config = 1
  /\ cache = [k \in {CacheKey(1, 1)} |-> Stored(1)]
  /\ faults = RouterFaults
  /\ events_left = MaxEvents
  /\ InitCommon

\* The only job of the batch has no sibling to wait for or to cancel.
NextRouter ==
  \/ StartBatch
  \/ \E j \in Jobs : ExtractDone(j)
  \/ \E j \in Jobs : \E ev \in StreamEvents : RouterEvent(j, ev)
  \/ \E j \in Jobs : AgentDone(j)
  \/ \E j \in Jobs : StreamDone(j)
  \/ \E j \in Jobs : CleanupDone(j)
  \/ \E j \in Jobs : SpinnerStep(j)
  \/ \E j \in Jobs : SleepDone(j)
  \/ Tick
  \/ Gather

SpecRouter == InitRouter /\ [][NextRouter]_vars

\* A batch of two files on a terminal, run with --no-cache, in which no
\* collaborator fails; the two agent streams deliver up to PairEvents
\* events.
InitPair ==
  /\ files_to_review = <<1, 2>>
  /\ no_cache = TRUE
  /\ enable_cache = TRUE
  /\ spinner_enabled = TRUE
  /\ max_concurrent_reviews = MaxConfigured
  /\ model_name = 1
  /\ review_config = 1
  /\ cache = [k \in {CacheKey(1, 1)} |-> Stored(1)]
  /\ faults = 0
  /\ events_left = PairEvents
  /\ InitCommon

\* No collaborator fails: no attempt is retried and no job is cancelled.
NextPair ==
  \/ StartBatch
  \/ \E j \in Jobs : ExtractDone(j)
  \/ \E j \in Jobs : \E ev \in StreamEvents : RouterEvent(j, ev)
  \/ \E j \in Jobs : AgentDone(j)
  \/ \E j \in Jobs : StreamDone(j)
  \/ \E j \in Jobs : SpinnerStep(j)
  \/ Gather

SpecPair == InitPair /\ [][NextPair]_vars

\* Batches of one file and of LiveFiles different files (more than
\* SmallBatch, so that there are fewer slots than jobs) without a terminal,
\* under every setting that changes the limit; file 1 is in the cache, and
\* the runs with more than one slot are those with --no-cache.
InitLive ==
  /\ \E n \in {1, LiveFiles} : files_to_review = [i \in 1..n |-> i]
  /\ no_cache \in BOOLEAN
  /\ enable_cache = TRUE
  /\ spinner_enabled = FALSE
  /\ max_concurrent_reviews \in 1..MinLimit
  /\ N = 1 => max_concurrent_reviews = 1
  /\ ~no_cache => max_concurrent_reviews = 1
  /\ model_name = 1
  /\ review_config = 1
  /\ cache = [k \in {CacheKey(1, 1)} |-> Stored(1)]
  /\ faults = LiveFaults
  /\ events_left = 0
  /\ InitCommon

NextLive ==
  \/ StartBatch
  \/ \E j \in Jobs : Woken(j)
  \/ \E j \in Jobs : ExtractDone(j)
  \/ \E j \in Jobs : CacheGetDone(j)
  \/ \E j \in Jobs : AgentDone(j)
  \/ \E j \in Jobs : SleepDone(j)
  \/ Tick
  \/ \E j \in Jobs : CachePutDone(j)
  \/ \E j \in Jobs : Cancel(j)
  \/ Gather

\* The step of the task of job j that is due: the event loop runs a task
\* whose await is over (a woken waiter, a cancelled task), and every
\* context extraction, cache call and agent call returns or fails.
JobStep(j) ==
  /\ j \in Jobs
  /\ \/ Woken(j)
     \/ ExtractDone(j)
     \/ CacheGetDone(j)
     \/ AgentDone(j)
     \/ SleepDone(j)
     \/ CachePutDone(j)
     \/ Cancel(j)

\* asyncio runs every callback that is ready and every timer that is due;
\* time goes on.
Fairness ==
  /\ WF_vars(StartBatch)
  /\ WF_vars(Tick)
  /\ WF_vars(Gather)
  /\ \A j \in 1..LiveFiles : WF_vars(JobStep(j))

SpecLive == InitLive /\ [][NextLive]_vars /\ Fairness

NextLimit == StartBatch

SpecLimit == InitLimit /\ [][NextLimit]_vars

\* ================================================================ claims
Finishedp(j) == pc[j] \in {"done", "cancelled"}
Succeeded(j) == results[j].kind = "tuple"
Successes == {j \in Jobs : Succeeded(j)}
\* jobs past context extraction and not yet finished
InFlight ==
  {j \in Jobs : pc[j] \in {"cache_get", "agent", "streaming", "cleanup",
                            "sleep", "cache_put"}}
\* jobs inside `async with semaphore`
Holding == InFlight \cup {j \in Jobs : pc[j] = "extract"}
Range(s) == {s[i] : i \in DOMAIN s}
\* the i-th smallest job of S
Nth(S, i) == CHOOSE j \in S : Cardinality({k \in S : k < j}) = i - 1

\* C1: in every reachable state of a batch the number of jobs past context
\* extraction and not yet finished is at most K, the concurrency limit that
\* was computed at batch start from N and the setting.
C1_BoundedInFlight ==
  batch # "init" =>
    /\ concurrency_limit = ConcurrencyLimit(N, max_concurrent_reviews)
    /\ Cardinality(InFlight) <= concurrency_limit

\* K jobs are in flight, K >= 2, while other jobs queue for a slot.
C1_Witness ==
  /\ concurrency_limit >= 2
  /\ Cardinality(InFlight) = concurrency_limit
  /\ sem_waiters # <<>>

\* C2: when the batch ends without the fatal error, the returned list holds
\* exactly the jobs that succeeded, each once, in input order, whatever the
\* order of completion.
C2_ResultsInInputOrder ==
  batch = "done" =>
    /\ Len(all_results) = Cardinality(Successes)
    /\ \A i \in 1..Len(all_results) :
         all_results[i] = results[Nth(Successes, i)]

\* A finished batch with a failed job between two successes, in which a
\* job completed before one earlier in the list.
C2_Witness ==
  /\ batch = "done"
  /\ overtaken
  /\ \E a, b, c \in Jobs :
       /\ a < b
       /\ b < c
       /\ Succeeded(a)
       /\ results[b] = None
       /\ Succeeded(c)

\* C3: for every job and every sequence of agent failures the agent is
\* invoked at most 3 times, that is, after at most 2 retries.
C3_AtMostThreeAttempts ==
  \A j \in Jobs : calls[j] <= 3 /\ Len(backoff[j]) <= 2

\* A job whose three invocations all failed.
C3_Witness ==
  \E j \in Jobs : calls[j] = 3 /\ Len(failures[j]) = 3 /\ pc[j] = "done"

\* C4: an agent failure that is not classified transient is never retried:
\* it is the job's last invocation (the only one when it is the first), no
\* backoff follows it, the error reaches the job boundary, the job returns
\* no result and a batch that ends lists every sibling that succeeded and
\* not this job.
C4_NonTransientNotRetried ==
  \A j \in Jobs : \A i \in DOMAIN failures[j] :
    ~failures[j][i].rate_limit =>
      /\ i = Len(failures[j])
      /\ calls[j] = i
      /\ Len(backoff[j]) = i - 1
      /\ pc[j] \in {"cleanup", "done"}
      /\ pc[j] = "done" => /\ raised[j] = <<failures[j][i]>>
                           /\ results[j] = None
      /\ batch = "done" =>
           /\ \A x \in Range(all_results) : x.review_result.job # j
           /\ \A k \in Jobs \ {j} :
                Succeeded(k) => results[k] \in Range(all_results)

\* A finished batch of two jobs: one invoked the agent once, got an error
\* that is not transient and took no backoff; its sibling is in the list.
C4_Witness ==
  /\ batch = "done"
  /\ \E j, k \in Jobs :
       /\ j # k
       /\ Len(failures[j]) = 1
       /\ ~failures[j][1].rate_limit
       /\ calls[j] = 1
       /\ backoff[j] = <<>>
       /\ all_results = <<results[k]>>

\* C5: after a transient failure of attempt n (n = 1, 2) the controller
\* sleeps exactly 5 * 2^(n-1) time units, 5 then 10, and attempt n+1 starts
\* only when that sleep has elapsed: every attempt after the first is
\* preceded by its full sleep.
C5_ExponentialBackoff ==
  \A j \in Jobs :
    /\ pc[j] = "agent" => Len(backoff[j]) = calls[j] - 1
    /\ pc[j] = "sleep" => /\ Len(backoff[j]) = calls[j] - 1
                          /\ failures[j][calls[j]].rate_limit
                          /\ waited[j] + remaining[j] = IF calls[j] = 1 THEN 5 ELSE 10
    /\ \A n \in DOMAIN backoff[j] :
         /\ n \in {1, 2}
         /\ backoff[j][n] = IF n = 1 THEN 5 ELSE 10
         /\ failures[j][n].rate_limit

\* A job that slept 5 and then 10 time units and is in its third attempt.
C5_Witness ==
  \E j \in Jobs : backoff[j] = <<5, 10>> /\ calls[j] = 3 /\ pc[j] = "agent"

\* C6: after a job has concluded by success, by a failure that is not
\* transient or by exhausted retries, a lookup of the job's registry key
\* returns absent.
C6_AbsentAfterConclusion ==
  \A j \in Jobs :
    (pc[j] = "done" /\ results[j].kind \in {"tuple", "None"}) =>
      Lookup(debug_writers, files_to_review[j]) = 0

\* C7: a step in which a job fails with an error other than the fatal one
\* does not abort the batch, gives the job's slot back (to the counter or to
\* the first waiter), and leaves every other job's position, attempts and
\* result as they were; a job is cancelled only after a fatal error.
C7_FailureIsolated ==
  [][/\ \A j \in Jobs :
          (/\ Len(raised'[j]) > Len(raised[j])
           /\ raised'[j][Len(raised'[j])] # ConfigurationError) =>
            /\ batch' = batch
            /\ exit_status' = exit_status
            /\ results'[j] = None
            /\ released'[j] = released[j] + 1
            /\ \/ sem_value' = sem_value + 1
               \/ \E w \in Jobs : pc[w] = "acquire" /\ pc'[w] = "woken"
            /\ cache' = cache
            /\ \A k \in Jobs \ {j} :
                 /\ results'[k] = results[k]
                 /\ attempt'[k] = attempt[k]
                 /\ calls'[k] = calls[k]
                 /\ acquired'[k] = acquired[k]
                 /\ released'[k] = released[k]
                 /\ \/ pc'[k] = pc[k]
                    \/ pc[k] = "acquire" /\ pc'[k] = "woken"
     /\ \A k \in Jobs :
          results'[k].kind = "CancelledError" =>
            \E j \in Jobs : ConfigurationError \in Range(raised[j])
    ]_vars

\* A finished batch in which one job failed and all the others succeeded,
\* although fewer slots than jobs were available.
C7_Witness ==
  /\ batch = "done"
  /\ concurrency_limit < N
  /\ \E j \in Jobs :
       /\ results[j] = None
       /\ raised[j] # <<>>
       /\ Successes = Jobs \ {j}

\* C8: every job acquires a slot at most once and releases it exactly once
\* when it concludes, by success, failure or cancellation; the slots held
\* and the free ones always add up to K, and once the batch has ended no
\* slot is held.
C8_SlotReleasedOnce ==
  /\ \A j \in Jobs :
       /\ acquired[j] <= 1
       /\ released[j] <= acquired[j]
       /\ Finishedp(j) => released[j] = acquired[j]
       /\ j \in Holding => acquired[j] = 1 /\ released[j] = 0
  /\ batch # "init" =>
       sem_value + Cardinality(Holding \cup {j \in Jobs : pc[j] = "woken"})
         = concurrency_limit
  /\ (batch # "init" /\ \A j \in Jobs : Finishedp(j)) =>
       /\ sem_value = concurrency_limit
       /\ sem_waiters = <<>>

\* An aborted batch, all tasks over: one job succeeded before the abort, one
\* was cancelled while it held a slot, one while it waited for one.
C8_Witness ==
  /\ batch = "aborted"
  /\ \A j \in Jobs : Finishedp(j)
  /\ \E j \in Jobs : Succeeded(j) /\ released[j] = 1
  /\ \E j \in Jobs : results[j].kind = "CancelledError" /\ released[j] = 1
  /\ \E j \in Jobs : results[j].kind = "CancelledError" /\ acquired[j] = 0

\* C9: a job that gets a cache hit returns the stored result in that very
\* step and never invokes the agent: no attempt, no spinner task, no
\* registration and no audit entry at all.
C9_CacheHitShortCircuits ==
  [][\A j \in Jobs :
       cache_hit'[j] =>
         /\ calls'[j] = 0
         /\ spinner_tasks'[j] = 0
         /\ registered'[j] = 0
         /\ audit'[j] = <<>>
         /\ failures'[j] = <<>>
         /\ backoff'[j] = <<>>
         /\ pc'[j] = "done"
         /\ ~cache_hit[j] =>
              /\ results'[j].kind = "tuple"
              /\ results'[j].file_path = files_to_review[j]
              /\ results'[j].review_result.kind = "ReviewResult"
              /\ results'[j].review_result.job
                   = cache[CacheKey(files_to_review[j], model_name)].job
              /\ results'[j].review_result.attempt
                   = cache[CacheKey(files_to_review[j], model_name)].attempt
    ]_vars

\* A job that hit the entry a sibling of the same batch had stored.
C9_Witness ==
  \E j \in Jobs :
    /\ cache_hit[j]
    /\ pc[j] = "done"
    /\ Succeeded(j)
    /\ results[j].review_result.job \in Jobs \ {j}

\* C10: the limit is N for N <= 5 and max(3, min(configured_max, N / 2))
\* for N > 5; so it is at least 3 for N > 5, and 3 jobs give 3.
C10_LimitFormula ==
  batch # "init" =>
    /\ concurrency_limit =
         IF N <= 5 THEN N
         ELSE Max(3, Min(max_concurrent_reviews, N \div 2))
    /\ N > 5 => concurrency_limit >= 3
    /\ N = 3 => concurrency_limit = 3

\* C11: when a job fails with the missing-credentials error the batch is
\* aborted with exit status 1, and from then on no result list is built,
\* no job completes normally (a job that ends, ends cancelled), no agent
\* invocation is made and no waiting job acquires a slot.
C11_AbortIsImmediate ==
  [][/\ (\E j \in Jobs : Len(raised'[j]) > Len(raised[j])
                          /\ raised'[j][Len(raised'[j])] = ConfigurationError)
          => batch' = "aborted" /\ exit_status' = 1
     /\ batch = "aborted" =>
          /\ batch' = "aborted"
          /\ exit_status' = 1
          /\ all_results' = <<>>
          /\ \A j \in Jobs :
               /\ calls'[j] = calls[j]
               /\ acquired'[j] = acquired[j]
               /\ results'[j] # results[j] =>
                    results'[j].kind = "CancelledError"
    ]_vars

\* C12: a job whose three attempts all failed with transient errors made
\* exactly three invocations and slept exactly twice: the third failure is
\* followed by no sleep and no attempt, it is the error that reaches the
\* job boundary, the job returns no result and is not in the list, and the
\* batch is not aborted by it: its siblings that succeed are listed.
C12_ExhaustedIsOrdinaryFailure ==
  /\ \A j \in Jobs :
       (Len(failures[j]) >= 3 /\ \A i \in 1..3 : failures[j][i].rate_limit) =>
         /\ Len(failures[j]) = 3
         /\ calls[j] = 3
         /\ Len(backoff[j]) = 2
         /\ pc[j] \in {"cleanup", "done"}
         /\ pc[j] = "done" => /\ raised[j] = <<failures[j][3]>>
                              /\ results[j] = None
         /\ batch = "done" =>
              /\ \A x \in Range(all_results) : x.review_result.job # j
              /\ \A k \in Jobs \ {j} :
                   Succeeded(k) => results[k] \in Range(all_results)
  /\ batch = "aborted" =>
       \E k \in Jobs : ConfigurationError \in Range(raised[k])

\* A finished batch of two jobs: one failed three times with rate-limit
\* errors, the other one is the only entry of the list.
C12_Witness ==
  /\ batch = "done"
  /\ \E j, k \in Jobs :
       /\ j # k
       /\ Len(failures[j]) = 3
       /\ \A i \in 1..3 : failures[j][i].rate_limit
       /\ backoff[j] = <<5, 10>>
       /\ results[j] = None
       /\ calls[k] >= 1
       /\ all_results = <<results[k]>>

\* C13: when an attempt has returned, raised or begun the retry sleep,
\* every spinner task it started is over: none is running and none is
\* cancelled but not yet terminated.
C13_SpinnerOverAtExit ==
  \A j \in Jobs :
    pc[j] \in {"sleep", "cache_put", "done"} =>
      spinner_state[j] \in {"none", "finished"}

\* the cache key of job j
KeyOf(j) == CacheKey(files_to_review[j], model_name)

\* C14: every step that changes the cache is the put of one job that got no
\* cache hit, invoked the agent and has the successful result of its last
\* invocation in hand (the agent response is the last entry of its record);
\* it stores that result under the job's key and the job succeeds.  So no
\* put follows a cache hit and no job that failed puts.
C14_PutOnlyAfterFreshSuccess ==
  [][cache' # cache =>
       \E j \in Jobs :
         /\ pc[j] = "cache_put"
         /\ ~cache_hit[j]
         /\ calls[j] >= 1
         /\ Len(failures[j]) = calls[j] - 1
         /\ audit[j] # <<>>
         /\ audit[j][Len(audit[j])] = Entry("agent_response")
         /\ cache' = CachePut(cache, KeyOf(j),
                        model_dump(ReviewResult(j, attempt[j], review_config)))
         /\ results'[j] =
              Success(j, ReviewResult(j, attempt[j], review_config))
    ]_vars

\* A job stored the result of its second invocation; its sibling is over
\* after a cache hit or after a failure.
C14_Witness ==
  \E j, k \in Jobs :
    /\ j # k
    /\ calls[j] = 2
    /\ Succeeded(j)
    /\ KeyOf(j) \in DOMAIN cache
    /\ cache[KeyOf(j)] = model_dump(results[j].review_result)
    /\ pc[k] = "done"
    /\ (cache_hit[k] \/ results[k] = None)

\* C15: a job registers at most once, and before its first agent
\* invocation; it unregisters only after it registered, at most once, and
\* when the job is over, however it ended, it has unregistered exactly once
\* if it registered.
C15_RegisterUnregisterOnce ==
  \A j \in Jobs :
    /\ registered[j] <= 1
    /\ calls[j] >= 1 => registered[j] = 1
    /\ unregistered[j] <= registered[j]
    /\ Finishedp(j) => unregistered[j] = registered[j]

\* C16: the registry maps each key to one recorder, and the job that owns
\* the recorder of a key reviews that key's file, has registered and is not
\* over: no entry outlives its job.
C16_EntriesOfLiveJobs ==
  \A key \in DOMAIN debug_writers :
    /\ debug_writers[key] \in Jobs
    /\ files_to_review[debug_writers[key]] = key
    /\ registered[debug_writers[key]] = 1
    /\ ~Finishedp(debug_writers[key])

\* C17: when caching is off, by --no-cache or by settings.enable_cache, no
\* step changes the cache, no job waits for a cache get or a cache put or
\* gets a hit, and a job that leaves context extraction without an error
\* (of the extraction or of the credentials check) invokes the agent.
C17_DisabledCacheUntouched ==
  [][(no_cache \/ ~enable_cache) =>
       /\ cache' = cache
       /\ \A j \in Jobs :
            /\ ~cache_hit'[j]
            /\ pc'[j] \notin {"cache_get", "cache_put"}
            /\ (/\ pc[j] = "extract"
                /\ pc'[j] \notin {"extract", "cancelled"}
                /\ raised'[j] = raised[j])
                 => pc'[j] = "agent" /\ calls'[j] = 1
    ]_vars

\* Caching is off by the setting while the cache holds the file of a job;
\* the batch is over and that job succeeded by invoking the agent.
C17_Witness ==
  /\ ~enable_cache
  /\ batch = "done"
  /\ \E j \in Jobs :
       /\ KeyOf(j) \in DOMAIN cache
       /\ cache[KeyOf(j)] = Stored(1)
       /\ Succeeded(j)
       /\ calls[j] >= 1

C20_HitMatchesConfiguration ==
  \A j \in Jobs :
    (cache_hit[j] /\ Succeeded(j)) =>
      results[j].review_result.config = review_config

\* C21: the job boundary (Handle) receives a rate-limit error only after the
\* retry controller has made all 3 attempts and all 3 failed with a
\* rate-limit error; while fewer than 3 attempts have failed, a rate-limit
\* failure of the last attempt has reached nobody outside the controller:
\* nothing was raised to the boundary and the job has not returned None.
C21_TransientOnlyAfterExhaustion ==
  \A j \in Jobs :
    /\ (\E i \in DOMAIN raised[j] : raised[j][i].rate_limit) =>
         /\ calls[j] = max_retries
         /\ Len(failures[j]) = max_retries
         /\ \A i \in DOMAIN failures[j] : failures[j][i].rate_limit
         /\ Len(raised[j]) = 1
    /\ (/\ failures[j] # <<>>
        /\ Len(failures[j]) < max_retries
        /\ failures[j][Len(failures[j])].rate_limit) =>
         /\ raised[j] = <<>>
         /\ results[j] # None

\* The rate-limit error of the third attempt of a job reached the boundary
\* after the errors of its first two attempts were handled inside the
\* controller (two sleeps), and the job has returned None to gather.
C21_Witness ==
  \E j \in Jobs :
    /\ raised[j] = <<RateLimitError>>
    /\ failures[j] = <<RateLimitError, RateLimitError, RateLimitError>>
    /\ Len(backoff[j]) = 2
    /\ results[j] = None
    /\ batch = "done"

\* C23: a job has at most one live spinner task at a time: an attempt
\* creates one only when the job's previous one is over (never created, or
\* terminated), also across retries; and when the job is over (returned,
\* raised or cancelled) no spinner task of it is still alive, running or
\* cancelled but not yet terminated.
C23_OneLiveSpinnerNoneLeaked ==
  [][\A j \in Jobs :
       /\ spinner_tasks'[j] > spinner_tasks[j] =>
            /\ spinner_tasks'[j] = spinner_tasks[j] + 1
            /\ spinner_state[j] \in {"none", "finished"}
       /\ pc'[j] \in {"done", "cancelled"} =>
            spinner_state'[j] \in {"none", "finished"}
    ]_vars

\* C23, the part the program keeps: no spinner task is started while the
\* job's previous one is alive.
C23_NoDoubleStart ==
  [][\A j \in Jobs :
       spinner_tasks'[j] > spinner_tasks[j] =>
         /\ spinner_tasks'[j] = spinner_tasks[j] + 1
         /\ spinner_state[j] \in {"none", "finished"}
    ]_vars

\* C24: concurrent identical requests are not coalesced.  A job that ends
\* its cache lookup while the cache holds no entry for its key gets no hit
\* and goes on to the agent itself (or fails to create it), whatever
\* another job with the same key is doing; and a job that ends its put has
\* stored its own result under the key, also when another job stored one
\* before.  So two jobs with the same key that run together with no entry
\* both miss, both invoke the agent and both put.
C24_NotCoalesced ==
  [][\A k \in Jobs :
       /\ (/\ pc[k] = "cache_get"
           /\ pc'[k] \notin {"cache_get", "cancelled"}
           /\ KeyOf(k) \notin DOMAIN cache)
            => /\ ~cache_hit'[k]
               /\ \/ pc'[k] = "agent" /\ calls'[k] = 1
                  \/ raised'[k] = <<ConfigurationError>>
       /\ (pc[k] = "cache_put" /\ pc'[k] = "done")
            => /\ KeyOf(k) \in DOMAIN cache'
               /\ cache'[KeyOf(k)] = model_dump(results'[k].review_result)
    ]_vars

\* Two jobs of the same file in flight together: both missed, both invoked
\* the agent and got a result, both are inside cache_review, and the cache
\* still holds no entry for their key.
C24_Witness ==
  \E j, k \in Jobs :
    /\ j < k
    /\ KeyOf(j) = KeyOf(k)
    /\ KeyOf(j) \notin DOMAIN cache
    /\ pc[j] = "cache_put" /\ pc[k] = "cache_put"
    /\ ~cache_hit[j] /\ ~cache_hit[k]
    /\ calls[j] >= 1 /\ calls[k] >= 1

\* The end of that execution: both jobs of the same file missed, invoked
\* the agent, put and succeeded.
C24_BothPut ==
  \E j, k \in Jobs :
    /\ j < k
    /\ KeyOf(j) = KeyOf(k)
    /\ ~cache_hit[j] /\ ~cache_hit[k]
    /\ calls[j] >= 1 /\ calls[k] >= 1
    /\ Succeeded(j) /\ Succeeded(k)
    /\ KeyOf(j) \in DOMAIN cache

\* the event job j consumes in a step that extends its stream
NewEvent(j) == events'[j][Len(events'[j])].event
Consumes(j) == events'[j] # events[j]
\* the step in which the attempt of job j gets its first partial result on
\* a terminal and shows "Receiving review results..."
ShowsReceiving(j) ==
  /\ spinner_enabled
  /\ pc[j] = "agent"
  /\ pc'[j] \in {"streaming", "cache_put", "done"}

\* C22: no status is shown for a job that equals the status shown
\* immediately before it for that job.  The handler shows a derived status
\* only if it differs from last_status, last_status is then the status
\* shown, and the line it replaces is a different one; and the status the
\* attempt shows on its first partial result differs from the line it
\* replaces.
C22_NoRepeatedStatus ==
  [][\A j \in Jobs :
       /\ Consumes(j) =>
            LET d == DerivedStatus(NewEvent(j), spinner_state[j] = "running")
            IN IF d = {} \/ d = {last_status[j]}
               THEN /\ last_status'[j] = last_status[j]
                    /\ current_status'[j] = current_status[j]
               ELSE /\ d = {last_status'[j]}
                    /\ d = {current_status'[j]}
                    /\ current_status'[j] # current_status[j]
       /\ ShowsReceiving(j) => current_status[j] # Receiving
    ]_vars

\* C22, the part the program keeps: the handler alone never shows the same
\* status twice in a row.
C22_HandlerDeduplicates ==
  [][\A j \in Jobs :
       Consumes(j) =>
         LET d == DerivedStatus(NewEvent(j), spinner_state[j] = "running")
         IN IF d = {} \/ d = {last_status[j]}
            THEN /\ last_status'[j] = last_status[j]
                 /\ current_status'[j] = current_status[j]
            ELSE /\ d = {last_status'[j]}
                 /\ d = {current_status'[j]}
                 /\ current_status'[j] # current_status[j]
    ]_vars

Generating == Status("Generating review...", NoTool)
Writing == Status("Writing review...", NoTool)
Finalizing == Status("Finalizing review...", NoTool)

\* C25: the handler derives the status from the kind of the event: a
\* part-start with tool name X gives "Calling tool: X...", a part-start
\* without a tool name "Generating review...", a tool call of X
\* "Executing: X...", a final result "Finalizing review...": after the
\* event that status is last_status, and it is the line shown if it
\* differed from last_status before.  A tool result derives nothing:
\* last_status and the line shown stay as they were.
C25_StatusByEventKind ==
  [][\A j \in Jobs :
       Consumes(j) =>
         LET ev == NewEvent(j)
             derived ==
               CASE ev.kind = "PartStartEvent" /\ ev.tool_name # NoTool ->
                      Status("Calling tool: ", ev.tool_name)
                 [] ev.kind = "PartStartEvent" /\ ev.tool_name = NoTool ->
                      Generating
                 [] ev.kind = "FunctionToolCallEvent" ->
                      Status("Executing: ", ev.tool_name)
                 [] ev.kind = "FinalResultEvent" -> Finalizing
                 [] OTHER -> NoStatus
         IN /\ ev.kind \in {"PartStartEvent", "FunctionToolCallEvent",
                            "FinalResultEvent"} =>
                 /\ last_status'[j] = derived
                 /\ last_status[j] # derived => current_status'[j] = derived
                 /\ last_status[j] = derived =>
                      current_status'[j] = current_status[j]
            /\ ev.kind = "FunctionToolResultEvent" =>
                 /\ last_status'[j] = last_status[j]
                 /\ current_status'[j] = current_status[j]
    ]_vars

\* A tool call part started and its result came in: the line shown is
\* still "Calling tool: get_file...".
C25_Witness ==
  \E j \in Jobs :
    /\ Len(events[j]) = 2
    /\ events[j][1].event.kind = "PartStartEvent"
    /\ events[j][1].event.tool_name = "get_file"
    /\ events[j][2].event.kind = "FunctionToolResultEvent"
    /\ last_status[j] = Status("Calling tool: ", "get_file")
    /\ current_status[j] = Status("Calling tool: ", "get_file")

\* the positions of the tool-call events with call id c in a stream
CallsWithId(log, c) ==
  {i \in DOMAIN log : /\ log[i].event.kind = "FunctionToolCallEvent"
                      /\ log[i].event.tool_call_id = c}
\* the tool name the latest of them recorded, "unknown_tool" when none did
NameRecorded(log, c) ==
  IF CallsWithId(log, c) = {} THEN "unknown_tool"
  ELSE log[CHOOSE i \in CallsWithId(log, c) :
             \A k \in CallsWithId(log, c) : k <= i].event.tool_name

\* C26: a tool-result event appends exactly one entry to the job's record,
\* a tool-output entry with the event's call id whose tool name is the one
\* the earlier tool-call event of this job with that call id recorded, and
\* "unknown_tool" when the job got no such event.
C26_ToolResultEntry ==
  [][\A j \in Jobs :
       (Consumes(j) /\ NewEvent(j).kind = "FunctionToolResultEvent") =>
         /\ Len(audit'[j]) = Len(audit[j]) + 1
         /\ SubSeq(audit'[j], 1, Len(audit[j])) = audit[j]
         /\ LET entry == audit'[j][Len(audit'[j])]
            IN /\ entry.kind = "tool_output"
               /\ entry.call_id = NewEvent(j).tool_call_id
               /\ entry.tool_name =
                    NameRecorded(events[j], NewEvent(j).tool_call_id)
    ]_vars

\* A job got the call of get_file with id 1 and then the result with id 1:
\* the entry names get_file.
C26_Witness ==
  \E j \in Jobs :
    /\ Len(events[j]) = 2
    /\ events[j][1].event = FunctionToolCallEvent("get_file", 1)
    /\ events[j][2].event.kind = "FunctionToolResultEvent"
    /\ events[j][2].event.tool_call_id = 1
    /\ audit[j][Len(audit[j])].kind = "tool_output"
    /\ audit[j][Len(audit[j])].tool_name = "get_file"

\* A job got a result whose call was not recorded: the entry names
\* unknown_tool.
C26_Unknown ==
  \E j \in Jobs :
    /\ Len(events[j]) = 1
    /\ events[j][1].event.kind = "FunctionToolResultEvent"
    /\ audit[j][Len(audit[j])].kind = "tool_output"
    /\ audit[j][Len(audit[j])].tool_name = "unknown_tool"

\* C27: a text delta derives "Writing review..." only while the spinner
\* loop of the job is not active.  While it is active (its task runs) the
\* event shows nothing and leaves last_status, the line shown and the
\* record as they were; while it is not, last_status is "Writing
\* review..." after the event, and that is the line shown if it differed.
C27_TextDeltaWhileSpinning ==
  [][\A j \in Jobs :
       (/\ Consumes(j)
        /\ NewEvent(j).kind = "PartDeltaEvent"
        /\ NewEvent(j).delta = "TextPartDelta") =>
         IF spinner_state[j] = "running"
         THEN /\ last_status'[j] = last_status[j]
              /\ current_status'[j] = current_status[j]
              /\ audit'[j] = audit[j]
         ELSE /\ last_status'[j] = Writing
              /\ last_status[j] # Writing => current_status'[j] = Writing
              /\ audit'[j] = audit[j]
    ]_vars

\* A job got a text delta while its spinner ran and one after the first
\* partial result had stopped the spinner: only the second was shown.
C27_Witness ==
  \E j \in Jobs :
    /\ Len(events[j]) = 2
    /\ events[j][1].event = PartDeltaEvent("TextPartDelta")
    /\ events[j][1].active
    /\ events[j][2].event = PartDeltaEvent("TextPartDelta")
    /\ ~events[j][2].active
    /\ events[j][2].attempt = events[j][1].attempt
    /\ last_status[j] = Writing
    /\ current_status[j] = Writing

\* the entries of a record that the handler wrote
ByRouter(e) == e.kind \in {"tool_call", "tool_output"} /\ e.event > 0
\* the kind of entry the handler writes for an event of a kind
EntryKindOf(kind) ==
  IF kind = "PartStartEvent" THEN "tool_call" ELSE "tool_output"

\* C28: within one job the statuses shown and the entries written by the
\* handler come in the order of the events that produced them.  A step
\* that consumes an event leaves the record as it was and adds at its end
\* only entries produced by that event, the newest of the stream; a status
\* the step shows is the one derived from that event.  So in every record
\* the handler's entries are in the order of their events, each written for
\* an event of its kind.
C28_OrderOfEvents ==
  [][\A j \in Jobs :
       /\ Consumes(j) =>
            /\ Len(audit'[j]) \in {Len(audit[j]), Len(audit[j]) + 1}
            /\ SubSeq(audit'[j], 1, Len(audit[j])) = audit[j]
            /\ \A i \in (Len(audit[j]) + 1)..Len(audit'[j]) :
                 /\ ByRouter(audit'[j][i])
                 /\ audit'[j][i].event = Len(events'[j])
            /\ current_status'[j] # current_status[j] =>
                 current_status'[j] \in
                   DerivedStatus(NewEvent(j), spinner_state[j] = "running")
       /\ \A a, b \in DOMAIN audit'[j] :
            (a < b /\ ByRouter(audit'[j][a]) /\ ByRouter(audit'[j][b])) =>
              audit'[j][a].event < audit'[j][b].event
       /\ \A a \in DOMAIN audit'[j] :
            ByRouter(audit'[j][a]) =>
              /\ audit'[j][a].event \in DOMAIN events'[j]
              /\ audit'[j][a].kind =
                   EntryKindOf(events'[j][audit'[j][a].event].event.kind)
    ]_vars

\* A tool call part started and a tool result came in: the record holds
\* the tool-call entry of the first event before the tool-output entry of
\* the second.
C28_Witness ==
  \E j \in Jobs : \E a, b \in DOMAIN audit[j] :
    /\ a < b
    /\ audit[j][a].kind = "tool_call" /\ audit[j][a].event = 1
    /\ audit[j][b].kind = "tool_output" /\ audit[j][b].event = 2
    /\ current_status[j] = Status("Calling tool: ", "get_file")

\* C29: a part-start event with a tool name appends exactly one entry to
\* the job's record, a tool-call entry with that tool name; its arguments
\* are the parsed payload when the payload parses, the raw text when it
\* does not, and the empty dict when there is none.  No error is raised:
\* the step records no failure and the job stays inside the agent call,
\* where the handler takes the next event.
C29_ToolCallEntry ==
  [][\A j \in Jobs :
       (/\ Consumes(j)
        /\ NewEvent(j).kind = "PartStartEvent"
        /\ NewEvent(j).tool_name # NoTool) =>
         /\ Len(audit'[j]) = Len(audit[j]) + 1
         /\ SubSeq(audit'[j], 1, Len(audit[j])) = audit[j]
         /\ LET entry == audit'[j][Len(audit'[j])]
                payload == NewEvent(j).arguments
            IN /\ entry.kind = "tool_call"
               /\ entry.tool_name = NewEvent(j).tool_name
               /\ payload = RawText => entry.arguments = RawText
               /\ payload = JsonText => entry.arguments = "dict"
               /\ payload = NoArguments => entry.arguments = "{}"
         /\ failures'[j] = failures[j]
         /\ raised'[j] = raised[j]
         /\ pc'[j] = pc[j]
    ]_vars

\* A tool call part with a payload that does not parse started, its
\* entry holds the raw text, and the handler took the next event.
C29_Witness ==
  \E j \in Jobs :
    /\ Len(events[j]) = 2
    /\ events[j][1].event = PartStartEvent("get_file", RawText)
    /\ \E a \in DOMAIN audit[j] :
         /\ audit[j][a].kind = "tool_call"
         /\ audit[j][a].arguments = RawText
         /\ audit[j][a].event = 1
    /\ failures[j] = <<>>
    /\ last_status[j] # Status("Calling tool: ", "get_file")

\* The state a handler is in after a stream, computed from that stream
\* alone: last_status, the call-id map, the entries written and the
\* statuses shown.
RECURSIVE Replay(_)
Replay(log) ==
  IF log = <<>>
  THEN [last |-> NoStatus, tracked |-> <<>>, entries |-> <<>>,
        shown |-> <<>>]
  ELSE LET before == Replay(SubSeq(log, 1, Len(log) - 1))
           r == log[Len(log)]
           emitted == Emitted(r.event, r.active, before.last)
       IN [last |-> IF emitted = {} THEN before.last
                    ELSE CHOOSE st \in emitted : TRUE,
           tracked |-> Track(before.tracked, r.event),
           entries |-> before.entries
                         \o RouterEntries(r.event, before.tracked, Len(log)),
           shown |-> IF emitted = {} THEN before.shown
                     ELSE Append(before.shown, CHOOSE st \in emitted : TRUE)]

\* C30: the state of a job's handler is the job's own: in every state its
\* last_status, its call-id map and the entries the handler wrote are
\* those its own stream produces, whatever events the other jobs of the
\* batch have got and in whatever interleaving, and the line shown for the
\* job is the initial one, the one of its first partial result, or a
\* status derived from an event of its own stream.
C30_HandlerStateIsJobLocal ==
  \A j \in Jobs :
    LET own == Replay(events[j])
    IN /\ last_status[j] = own.last
       /\ tool_calls_tracked[j] = own.tracked
       /\ SelectSeq(audit[j], ByRouter) = own.entries
       /\ current_status[j] \in
            {NoStatus, Analyzing, Receiving} \cup Range(own.shown)

\* Two jobs inside their agent calls at the same time, each of which has
\* consumed an event; their handlers are in different states.
C30_Witness ==
  \E j, k \in Jobs :
    /\ j # k
    /\ pc[j] \in {"agent", "streaming"} /\ pc[k] \in {"agent", "streaming"}
    /\ events[j] # <<>> /\ events[k] # <<>>
    /\ last_status[j] = Status("Calling tool: ", "get_file")
    /\ last_status[k] = Status("Executing: ", "search")
    /\ tool_calls_tracked[j] = <<>>
    /\ tool_calls_tracked[k] # <<>>

C32_CancelledJobUnregistered ==
  \A j \in Jobs :
    (pc[j] = "cancelled" /\ registered[j] = 1) =>
      /\ unregistered[j] = 1
      /\ \A key \in DOMAIN debug_writers : debug_writers[key] # j

\* C33: while a job is between its register and its conclusion, a lookup
\* under the job's registry key returns the job's own recorder, also when
\* another job of the batch that reviews the same path starts or concludes
\* in the meantime.
C33_LookupReturnsOwnRecorder ==
  \A j \in Jobs :
    (registered[j] = 1 /\ unregistered[j] = 0 /\ ~Finishedp(j)) =>
      Lookup(debug_writers, files_to_review[j]) = j

C35_CancellationPropagates ==
  [][\A j \in Jobs :
       /\ (/\ batch = "aborted"
           /\ pc[j] \in {"agent", "streaming"}
           /\ j \notin absorbed) =>
            /\ j \notin absorbed'
            /\ pc'[j] \in {pc[j], "cancelled"}
            /\ calls'[j] = calls[j]
            /\ attempt'[j] = attempt[j]
            /\ failures'[j] = failures[j]
            /\ raised'[j] = raised[j]
            /\ backoff'[j] = backoff[j]
            /\ audit'[j] = audit[j]
            /\ pc'[j] = "cancelled" =>
                 /\ results'[j].kind = "CancelledError"
                 /\ released'[j] = released[j] + 1
                 /\ released'[j] = acquired'[j]
                 /\ sem_value' = sem_value + 1
                 /\ spinner_state'[j] \in {"none", "finished"}
       /\ pc[j] = "cancelled" =>
            /\ pc'[j] = "cancelled"
            /\ calls'[j] = calls[j]
            /\ results'[j] = results[j]
            /\ released'[j] = released[j]
    ]_vars

\* A job on a terminal was cancelled inside the agent call of its second
\* attempt: its spinner task is over, its slot is released, and the only
\* failure it has recorded is the rate-limit error of its first attempt.
C35_Witness ==
  \E j \in Jobs :
    /\ pc[j] = "cancelled"
    /\ calls[j] = 2
    /\ failures[j] = <<RateLimitError>>
    /\ raised[j] = <<>>
    /\ spinner_tasks[j] = 2
    /\ spinner_state[j] = "finished"
    /\ released[j] = 1

\* the entries that end a record
Terminal(e) == e.kind \in {"agent_response", "error"}
TerminalEntries(j) == {i \in DOMAIN audit[j] : Terminal(audit[j][i])}

\* C36: a job that invoked the agent and concluded has exactly one terminal
\* entry, the last entry of its record: an agent-response entry if it
\* succeeded, an error entry if it failed.  While the job is inside an
\* attempt, or inside the sleep that follows a transient failure, its
\* record has no terminal entry: a retried attempt writes no error entry.
C36_OneTerminalEntry ==
  \A j \in Jobs :
    /\ (calls[j] >= 1 /\ pc[j] \in {"done", "cache_put"}) =>
         /\ TerminalEntries(j) = {Len(audit[j])}
         /\ Succeeded(j) => audit[j][Len(audit[j])] = Entry("agent_response")
         /\ pc[j] = "cache_put" =>
              audit[j][Len(audit[j])] = Entry("agent_response")
         /\ results[j] = None => audit[j][Len(audit[j])] = Entry("error")
         /\ pc[j] = "done" => (Succeeded(j) \/ results[j] = None)
    /\ pc[j] \in {"agent", "streaming", "cleanup", "sleep"} =>
         TerminalEntries(j) = {}

\* Two jobs are over: one was retried twice and succeeded in its third
\* attempt, the other one failed with an error that is not transient; each
\* record ends with its only terminal entry.
C36_Witness ==
  \E j, k \in Jobs :
    /\ pc[j] = "done" /\ pc[k] = "done"
    /\ Len(failures[j]) = 2 /\ Succeeded(j)
    /\ audit[j] = <<Entry("user_prompt"), Entry("agent_response")>>
    /\ failures[k] = <<UnexpectedError>> /\ results[k] = None
    /\ audit[k] = <<Entry("user_prompt"), Entry("error")>>

\* C37: the handler's last_status and call-id map are those of the job, not
\* of the attempt.  The step that starts a retry attempt leaves them as
\* they were; and for an event consumed in a retry attempt, last_status is
\* the last status the handler emitted in the whole stream so far (earlier
\* attempts included), a derived status equal to it is not shown again,
\* and a tool result resolves its call id to the tool name recorded by the
\* latest tool call with that id, also when that call came in an earlier
\* attempt.
C37_HandlerStateKeptAcrossRetries ==
  [][\A j \in Jobs :
       /\ attempt'[j] # attempt[j] =>
            /\ last_status'[j] = last_status[j]
            /\ tool_calls_tracked'[j] = tool_calls_tracked[j]
       /\ (Consumes(j) /\ attempt[j] >= 1) =>
            LET ev == NewEvent(j)
                d == DerivedStatus(ev, spinner_state[j] = "running")
            IN /\ last_status[j] = Replay(events[j]).last
               /\ d = {last_status[j]} =>
                    /\ current_status'[j] = current_status[j]
                    /\ last_status'[j] = last_status[j]
               /\ ev.kind = "FunctionToolResultEvent" =>
                    audit'[j][Len(audit'[j])].tool_name =
                      NameRecorded(events[j], ev.tool_call_id)
    ]_vars

\* The call of get_file with id 1 came in the first attempt, which failed;
\* the result with id 1 came in the second attempt and its entry names
\* get_file.
C37_Witness ==
  \E j \in Jobs :
    /\ Len(events[j]) = 2
    /\ events[j][1].event = FunctionToolCallEvent("get_file", 1)
    /\ events[j][1].attempt = 0
    /\ events[j][2].event.kind = "FunctionToolResultEvent"
    /\ events[j][2].event.tool_call_id = 1
    /\ events[j][2].attempt = 1
    /\ audit[j][Len(audit[j])].kind = "tool_output"
    /\ audit[j][Len(audit[j])].tool_name = "get_file"

\* The final-result event came in the first attempt, which failed, and
\* again as the first event of the second attempt: last_status is still
\* "Finalizing review...", which was emitted once.
C37_StatusNotRepeated ==
  \E j \in Jobs :
    /\ Len(events[j]) = 2
    /\ events[j][1].event = FinalResultEvent /\ events[j][1].attempt = 0
    /\ events[j][2].event = FinalResultEvent /\ events[j][2].attempt = 1
    /\ last_status[j] = Finalizing
    /\ Replay(events[j]).shown = <<Finalizing>>

\* jobs that have not entered `async with semaphore` yet
Outside == {j \in Jobs : pc[j] \in {"created", "acquire", "woken"}}
Extracting == {j \in Jobs : pc[j] = "extract"}

\* C38: a job does nothing of its review before it has acquired a slot: a
\* job in context extraction, in a cache call, registered or inside the
\* executor holds a slot; a job that has not acquired one has looked up no
\* cache entry, registered no recorder, written no entry and invoked no
\* agent.  So at most K jobs are in context extraction at the same time
\* (and at most K in extraction or beyond).
C38_NothingBeforeSlot ==
  /\ \A j \in Jobs :
       /\ pc[j] \in {"extract", "cache_get", "agent", "streaming", "cleanup",
                     "sleep", "cache_put"} =>
            acquired[j] = 1 /\ released[j] = 0
       /\ (\/ calls[j] >= 1
           \/ registered[j] >= 1
           \/ cache_hit[j]
           \/ audit[j] # <<>>
           \/ raised[j] # <<>>) => acquired[j] = 1
       /\ j \in Outside =>
            /\ acquired[j] = 0
            /\ calls[j] = 0
            /\ registered[j] = 0
            /\ ~cache_hit[j]
            /\ audit[j] = <<>>
            /\ results[j] = NoResult
  /\ batch # "init" =>
       /\ Cardinality(Extracting) <= concurrency_limit
       /\ Cardinality(Holding) <= concurrency_limit

\* K >= 2 jobs are in context extraction at the same time, one of them
\* after it had queued for its slot, while other jobs still queue.
C38_Witness ==
  /\ concurrency_limit >= 2
  /\ Cardinality(Extracting) = concurrency_limit
  /\ sem_waiters # <<>>
  /\ \E j \in Extracting : j > concurrency_limit
  /\ \A j \in Range(sem_waiters) : acquired[j] = 0 /\ calls[j] = 0

\* the tool-result events of the current attempt of job j, by position
ResultsOfAttempt(j) ==
  {i \in DOMAIN events[j] :
     /\ events[j][i].attempt = attempt[j]
     /\ events[j][i].event.kind = "FunctionToolResultEvent"}
\* the tool-output entries of the record of job j that were written for
\* those events by the handler (event > 0) or by the scan of the run
\* history (event = 0)
OutputsOfAttempt(j) ==
  {a \in DOMAIN audit[j] :
     /\ audit[j][a].kind = "tool_output"
     /\ audit[j][a].event \in {0} \cup ResultsOfAttempt(j)}

\* C39: when an attempt has succeeded, the record of the job holds exactly
\* one tool-output entry for each tool-result event of that attempt: the
\* scan of the run history adds no second entry for a result the handler
\* recorded.
C39_OneEntryPerToolResult ==
  \A j \in Jobs :
    (pc[j] = "done" /\ Succeeded(j) /\ calls[j] >= 1) =>
      Cardinality(OutputsOfAttempt(j)) = Cardinality(ResultsOfAttempt(j))

\* C39, the part the program keeps: the handler alone writes exactly one
\* tool-output entry for each tool-result event.
C39_HandlerWritesOne ==
  \A j \in Jobs :
    \A i \in DOMAIN events[j] :
      events[j][i].event.kind = "FunctionToolResultEvent" =>
        Cardinality({a \in DOMAIN audit[j] :
                       /\ audit[j][a].kind = "tool_output"
                       /\ audit[j][a].event = i}) = 1

RECURSIVE SumSeq(_)
SumSeq(s) == IF s = <<>> THEN 0 ELSE Head(s) + SumSeq(Tail(s))
\* the time job j has spent in backoff sleeps so far
BackoffTime(j) == SumSeq(backoff[j]) + IF pc[j] = "sleep" THEN waited[j] ELSE 0
\* the steps of the retry controller of job j
ControllerStep(j) ==
  AgentDone(j) \/ StreamDone(j) \/ CleanupDone(j) \/ SleepDone(j)

\* C40: the retry controller always comes to an end, by returning a result
\* or by raising the error of its last attempt, after at most 3 attempts
\* and at most 15 time units of backoff.  A job inside the controller can
\* always take its next step (the agent call returns or fails, the timer
\* fires); a job that sleeps has an attempt left, so the loop never runs
\* out and the error raised after the loop is never raised: whatever the
\* controller raises is the error of the job's last agent call.
C40_ControllerEnds ==
  \A j \in Jobs :
    /\ calls[j] <= max_retries
    /\ BackoffTime(j) <= 15
    /\ pc[j] = "sleep" => NextAttempt(attempt[j]) < max_retries
    /\ (Running(j) /\ pc[j] \in {"agent", "streaming", "cleanup", "sleep"}) =>
         ENABLED (ControllerStep(j) \/ Tick)
    /\ (pc[j] = "done" /\ calls[j] >= 1) =>
         \/ /\ Succeeded(j)
            /\ Len(failures[j]) = calls[j] - 1
            /\ raised[j] = <<>>
         \/ /\ results[j] = None
            /\ Len(failures[j]) = calls[j]
            /\ raised[j] = <<failures[j][calls[j]]>>

\* A job whose first two attempts failed with rate-limit errors and whose
\* third attempt failed with another error: it slept 15 time units in all
\* and the controller raised the third error.
C40_Witness ==
  \E j \in Jobs :
    /\ pc[j] = "done"
    /\ failures[j] = <<RateLimitError, RateLimitError, UnexpectedError>>
    /\ BackoffTime(j) = 15
    /\ raised[j] = <<UnexpectedError>>
    /\ results[j] = None

====
